---------------------------- MODULE Spec2Model ----------------------------
(***************************************************************************)
(* Photo-Landmark-Explorer: the tour pipeline of src/App.tsx (the App      *)
(* component with credential and audience level, lines 456-801) and the    *)
(* capability client of src/unnamed/part_000 (services/geminiService).     *)
(*                                                                         *)
(* JavaScript strings that the code inspects character by character        *)
(* (history text, audio payload) are sequences of characters; '' is <<>>.  *)
(* null is NULL, undefined is UNDEFINED.  An await splits a handler into   *)
(* steps: each action is the code that runs between two awaits.            *)
(***************************************************************************)
EXTENDS Integers, Sequences, FiniteSets, TLC

\* ------------------------------------------------------------ bounds
\* how many images are submitted in one behaviour (one object URL each)
MaxImages == 2

\* ------------------------------------------------------------ values
NULL == "null"
UNDEFINED == "undefined"
NoUrl == 0

IDLE == "IDLE"
IDENTIFYING == "IDENTIFYING"
FETCHING_HISTORY == "FETCHING_HISTORY"
GENERATING_SPEECH == "GENERATING_SPEECH"
DONE == "DONE"
ERROR == "ERROR"

LoadingStep == {IDLE, IDENTIFYING, FETCHING_HISTORY, GENERATING_SPEECH, DONE, ERROR}

\* the UTF-16 code units of each enum member's string value
LoadingStepValue(step) ==
    CASE step = IDLE -> <<73, 68, 76, 69>>
      [] step = IDENTIFYING -> <<73, 68, 69, 78, 84, 73, 70, 89, 73, 78, 71>>
      [] step = FETCHING_HISTORY ->
            <<70, 69, 84, 67, 72, 73, 78, 71, 95, 72, 73, 83, 84, 79, 82, 89>>
      [] step = GENERATING_SPEECH ->
            <<71, 69, 78, 69, 82, 65, 84, 73, 78, 71, 95, 83, 80, 69, 69, 67, 72>>
      [] step = DONE -> <<68, 79, 78, 69>>
      [] step = ERROR -> <<69, 82, 82, 79, 82>>

\* JavaScript's a <= b on two strings: code unit by code unit, a prefix first
RECURSIVE JsStringLE(_, _)
JsStringLE(a, b) ==
    IF a = <<>> THEN TRUE
    ELSE IF b = <<>> THEN FALSE
    ELSE IF Head(a) < Head(b) THEN TRUE
    ELSE IF Head(a) > Head(b) THEN FALSE
    ELSE JsStringLE(Tail(a), Tail(b))

\* stepToRetry <= LoadingStep.X, on a string enum
StepLE(step, other) == JsStringLE(LoadingStepValue(step), LoadingStepValue(other))

Range(s) == {s[i] : i \in 1..Len(s)}

\* ------------------------------------------------------------ inputs
Keys == {"key-1"}
UserLevels == {"adult"}
Files == {"photo.jpg"}
LandmarkNames == {"Eiffel Tower", "Louvre"}

NullLandmarkInfo ==
    [name |-> NULL, city |-> NULL, country |-> NULL,
     latitude |-> NULL, longitude |-> NULL]

\* err.message of what a capability call can throw
MSG_KEY == "API key not valid. Please pass a valid API key."
MSG_NOT_FOUND == "LANDMARK_NOT_FOUND"
MSG_QUOTA == "429 RESOURCE_EXHAUSTED"
MSG_KEY_AND_QUOTA == "RESOURCE_EXHAUSTED: API key not valid"
MSG_NETWORK == "Failed to fetch"
MSG_NO_AUDIO == "no audio data in the response"
MSG_NO_LANDMARK == "Landmark not identified."

\* what the backend itself can answer a request with instead of a response
BackendErrors == {MSG_KEY, MSG_QUOTA, MSG_KEY_AND_QUOTA, MSG_NETWORK, UNDEFINED}

\* err.message?.includes('API key not valid')
IncludesKeyNotValid(message) == message \in {MSG_KEY, MSG_KEY_AND_QUOTA}
\* err.message?.includes("RESOURCE_EXHAUSTED")
IncludesResourceExhausted(message) == message \in {MSG_QUOTA, MSG_KEY_AND_QUOTA}


\* ------------------------------------------------- capability client
\* JavaScript truthiness of a string-or-null field
Truthy(v) == v \notin {NULL, UNDEFINED, ""}

\* a well-formed identify response for one landmark
LandmarkResponse(n) ==
    [is_landmark |-> TRUE, name |-> n, city |-> "Paris", country |-> "France",
     latitude |-> "48.86", longitude |-> "2.29"]

\* the JSON documents the backend answers an identify request with
IdentifyResponses ==
    {LandmarkResponse(n) : n \in LandmarkNames}
    \cup {[LandmarkResponse("Louvre") EXCEPT !.is_landmark = FALSE],
          [is_landmark |-> FALSE, name |-> NULL, city |-> NULL, country |-> NULL,
           latitude |-> NULL, longitude |-> NULL],
          [is_landmark |-> FALSE, name |-> UNDEFINED, city |-> UNDEFINED,
           country |-> UNDEFINED, latitude |-> UNDEFINED, longitude |-> UNDEFINED],
          [LandmarkResponse("Louvre") EXCEPT !.name = ""],
          [LandmarkResponse("Louvre") EXCEPT !.city = NULL],
          [LandmarkResponse("Louvre") EXCEPT !.country = UNDEFINED],
          [LandmarkResponse("Louvre") EXCEPT !.latitude = NULL],
          [LandmarkResponse("Louvre") EXCEPT !.longitude = NULL],
          [LandmarkResponse("Louvre") EXCEPT !.latitude = UNDEFINED]}

\* a reply to a capability request: the backend threw (error is err.message)
\* or answered (error = NULL) with a body
Failure(message) == [ok |-> FALSE, message |-> message]

IdentifyReplies ==
    {[error |-> e, json |-> LandmarkResponse("Louvre")] : e \in BackendErrors}
    \cup {[error |-> NULL, json |-> r] : r \in IdentifyResponses}

\* identifyLandmark without the test of the is_landmark flag
identifyLandmark_IgnoresFlag(reply) ==
    IF reply.error # NULL THEN Failure(reply.error)
    ELSE LET result == reply.json IN
         IF \/ ~Truthy(result.name)
            \/ ~Truthy(result.city)
            \/ ~Truthy(result.country)
            \/ result.latitude = NULL
            \/ result.longitude = NULL
         THEN Failure(MSG_NOT_FOUND)
         ELSE [ok |-> TRUE,
               value |-> [name |-> result.name, city |-> result.city,
                          country |-> result.country,
                          latitude |-> result.latitude,
                          longitude |-> result.longitude]]

identifyLandmark(reply) ==
    IF reply.error # NULL THEN Failure(reply.error)
    ELSE LET result == reply.json IN
         IF \/ ~result.is_landmark
            \/ ~Truthy(result.name)
            \/ ~Truthy(result.city)
            \/ ~Truthy(result.country)
            \/ result.latitude = NULL
            \/ result.longitude = NULL
         THEN Failure(MSG_NOT_FOUND)
         ELSE [ok |-> TRUE,
               value |-> [name |-> result.name, city |-> result.city,
                          country |-> result.country,
                          latitude |-> result.latitude,
                          longitude |-> result.longitude]]

\* text.replace('**', ''): the first "**" only
RECURSIVE StripEmphasis_FirstOnly(_)
StripEmphasis_FirstOnly(text) ==
    IF Len(text) < 2 THEN text
    ELSE IF text[1] = "*" /\ text[2] = "*" THEN SubSeq(text, 3, Len(text))
    ELSE <<text[1]>> \o StripEmphasis_FirstOnly(Tail(text))

\* text.replace(/\*\*/g, ''): every non-overlapping "**", left to right
RECURSIVE StripEmphasis(_)
StripEmphasis(text) ==
    IF Len(text) < 2 THEN text
    ELSE IF text[1] = "*" /\ text[2] = "*" THEN StripEmphasis(SubSeq(text, 3, Len(text)))
    ELSE <<text[1]>> \o StripEmphasis(Tail(text))

\* groundingChunks.filter(chunk => chunk.web?.uri && chunk.web.title)
RECURSIVE FilterSources(_)
FilterSources(chunks) ==
    IF chunks = <<>> THEN <<>>
    ELSE LET chunk == Head(chunks) IN
         IF Truthy(chunk.uri) /\ Truthy(chunk.title)
         THEN <<[uri |-> chunk.uri, title |-> chunk.title]>> \o FilterSources(Tail(chunks))
         ELSE FilterSources(Tail(chunks))

\* what the backend writes about a landmark: the name stands for the prose
NarrateReplies(landmarkName) ==
    {[error |-> e, text |-> <<>>, chunks |-> <<>>] : e \in BackendErrors}
    \cup {[error |-> NULL, text |-> <<landmarkName>>, chunks |-> <<>>],
          [error |-> NULL, text |-> <<"*", "*", landmarkName, "*", "*">>,
           chunks |-> <<[uri |-> "https://a", title |-> "a"],
                        [uri |-> "https://b", title |-> UNDEFINED]>>]}

fetchLandmarkHistory(reply) ==
    IF reply.error # NULL THEN Failure(reply.error)
    ELSE [ok |-> TRUE,
          value |-> [text |-> StripEmphasis(reply.text),
                     sources |-> FilterSources(reply.chunks)]]

\* the audio the backend synthesises for a text
AudioFor(text) == <<"pcm">> \o text

\* data = <<>>: inlineData.data is missing or empty
SpeechReplies(text) ==
    {[error |-> e, data |-> <<>>] : e \in BackendErrors}
    \cup {[error |-> NULL, data |-> AudioFor(text)], [error |-> NULL, data |-> <<>>]}

generateSpeech(reply) ==
    IF reply.error # NULL THEN Failure(reply.error)
    ELSE IF reply.data = <<>> THEN Failure(MSG_NO_AUDIO)
    ELSE [ok |-> TRUE, value |-> reply.data]

\* what the backend answers a fun-fact request with
FunFactReplies ==
    {[error |-> e, text |-> <<>>] : e \in BackendErrors}
    \cup {[error |-> NULL, text |-> <<"*", "*", "fact", "*", "*">>]}

\* return response.text.replace(/\*\*/g, '')
fetchFunFact(reply) ==
    IF reply.error # NULL THEN Failure(reply.error)
    ELSE [ok |-> TRUE, value |-> StripEmphasis(reply.text)]

\* what the backend answers a question with
AnswerReplies(question) ==
    {[error |-> e, text |-> <<>>] : e \in BackendErrors}
    \cup {[error |-> NULL, text |-> <<"*", "*", "re", "*", "*">> \o question]}

askQuestion(reply) ==
    IF reply.error # NULL THEN Failure(reply.error)
    ELSE [ok |-> TRUE, value |-> StripEmphasis(reply.text)]

MSG_NO_ARTWORK == "no artwork image in the response"

\* the parts of the first candidate: inlineData is NULL on a text part
ArtworkReplies(stylePrompt) ==
    {[error |-> e, parts |-> <<>>] : e \in BackendErrors}
    \cup {[error |-> NULL, parts |-> <<>>],
          [error |-> NULL, parts |-> <<[inlineData |-> NULL]>>],
          [error |-> NULL,
           parts |-> <<[inlineData |-> NULL], [inlineData |-> "png of " \o stylePrompt]>>]}

\* for (const part of parts) if (part.inlineData) return part.inlineData.data
RECURSIVE FirstInlineData(_)
FirstInlineData(parts) ==
    IF parts = <<>> THEN NULL
    ELSE IF Head(parts).inlineData # NULL THEN Head(parts).inlineData
    ELSE FirstInlineData(Tail(parts))

generateArtwork(reply) ==
    IF reply.error # NULL THEN Failure(reply.error)
    ELSE IF FirstInlineData(reply.parts) = NULL THEN Failure(MSG_NO_ARTWORK)
    ELSE [ok |-> TRUE, value |-> FirstInlineData(reply.parts)]

\* what an emoji request for these landmark names is answered with
EmojiReplies(landmarkNames) ==
    {[error |-> e, emojis |-> <<>>] : e \in BackendErrors}
    \cup {[error |-> NULL, emojis |-> [i \in 1..Len(landmarkNames) |-> "tower"]]}

\* ------------------------------------------------------------- state
VARIABLES
    app,            \* the useState cells of App
    localStorage,   \* localStorage['gemini_api_key'], NULL when absent
    revoked,        \* object URLs passed to URL.revokeObjectURL
    nextUrl,        \* the next URL.createObjectURL result
    alertMsg,       \* the last alert() shown
    started,        \* the mount effect has run
    pc,             \* the capability call awaited: "idle" when none
    task,           \* the locals and closure of the handler that awaits
    run,            \* console: the calls of the last handler run of the pipeline
    succeeded,      \* the stages that produced a result since the image was submitted
    funFact,        \* the useState cells of FunFact
    artwork,        \* the useState cells of ArtworkGenerator
    qaChat,         \* the useState cells of QAChat
    certificate,    \* showCertificate of TourSummary and the emoji cells of Certificate
    audioPlayer,    \* the cells and refs of AudioPlayer and the sources it created
    identification, \* one identifyLandmark call: the backend's reply and the outcome
    sanitizer       \* one text and what the emphasis stripping made of it

\* the components of the result view and of the tour summary
viewVars == <<funFact, artwork, qaChat, certificate>>

\* what the tour pipeline never touches
aside == <<audioPlayer, identification, sanitizer>>

tourVars == <<app, localStorage, revoked, nextUrl, alertMsg, started, pc, task, run, succeeded>>

vars == <<app, localStorage, revoked, nextUrl, alertMsg, started, pc, task, run, succeeded,
          funFact, artwork, qaChat, certificate, audioPlayer, identification, sanitizer>>

InitialApp ==
    [apiKey |-> NULL, loadingStep |-> IDLE, failedStep |-> NULL, error |-> NULL,
     errorType |-> "generic", imageUrl |-> NoUrl, imageFile |-> NULL,
     landmarkInfo |-> NullLandmarkInfo, history |-> <<>>, sources |-> <<>>,
     base64Audio |-> <<>>, tourHistory |-> <<>>, isTourEnded |-> FALSE,
     userLevel |-> "", isRetryableError |-> TRUE]

NoTask ==
    [kind |-> "none", file |-> NULL, objectUrl |-> NoUrl, apiKey |-> NULL,
     userLevel |-> "", currentStep |-> IDLE, stepToRetry |-> IDLE,
     landmarkToUse |-> NullLandmarkInfo, historyToUse |-> <<>>,
     sourcesToUse |-> <<>>, audioToUse |-> <<>>, tourHistory |-> <<>>]

NoRun == [kind |-> "none", from |-> IDLE, issued |-> <<>>, error |-> NULL]

\* useState(null), useState(false), useState(null) of FunFact
InitialFunFact == [fact |-> NULL, isLoading |-> FALSE, error |-> NULL]

\* lastAttemptedStyle = null
NoStyle == [name |-> NULL, prompt |-> NULL]

\* the five useState cells of ArtworkGenerator
InitialArtwork ==
    [generatedImage |-> NULL, isLoading |-> FALSE, error |-> NULL,
     activeStyle |-> NULL, lastAttemptedStyle |-> NoStyle]

\* the useState cells of QAChat; inputValue is an argument of handleSendMessage
InitialQAChat == [messages |-> <<>>, isLoading |-> FALSE, error |-> NULL, lastMessage |-> <<>>]

\* useState(false) of TourSummary, useState([]) and useState(true) of Certificate
InitialCertificate == [showCertificate |-> FALSE, emojis |-> <<>>, isLoadingEmojis |-> TRUE]

\* a player whose component is not mounted
NoAudioPlayer ==
    [mounted |-> FALSE, decoding |-> FALSE, isPlaying |-> FALSE, isReady |-> FALSE,
     audioContext |-> NULL, audioBuffer |-> NULL, sourceRef |-> 0, sources |-> <<>>]

\* no identifyLandmark call is being looked at
NoIdentification ==
    [returned |-> FALSE,
     reply |-> [error |-> UNDEFINED, json |-> LandmarkResponse("Louvre")],
     result |-> Failure(UNDEFINED)]

\* no text is being sanitized
NoSanitizer == [text |-> <<>>, passes |-> 0, once |-> <<>>, twice |-> <<>>]

\* every component unmounted
ViewInit ==
    /\ funFact = InitialFunFact
    /\ artwork = InitialArtwork
    /\ qaChat = InitialQAChat
    /\ certificate = InitialCertificate

AsideInit ==
    /\ audioPlayer = NoAudioPlayer
    /\ identification = NoIdentification
    /\ sanitizer = NoSanitizer

\* a component that mounts starts from its initial cells; what an unmounted
\* component held is gone, and a call it still awaits settles into nothing
ViewsRemounted ==
    /\ funFact' = InitialFunFact
    /\ artwork' = InitialArtwork
    /\ qaChat' = InitialQAChat
    /\ certificate' = InitialCertificate

Init ==
    /\ app = InitialApp
    /\ localStorage \in Keys \cup {NULL}
    /\ revoked = {}
    /\ nextUrl = 1
    /\ alertMsg = NULL
    /\ started = FALSE
    /\ pc = "idle"
    /\ task = NoTask
    /\ run = NoRun
    /\ succeeded = {}
    /\ ViewInit
    /\ AsideInit

\* ---------------------------------------------------------- rendering
isLoading == app.loadingStep \notin {IDLE, DONE, ERROR}

\* the uploader rendered whatever the stage
ImageUploaderMounted_Always == ~app.isTourEnded

ImageUploaderMounted == ~app.isTourEnded /\ app.loadingStep = IDLE

ErrorPanelMounted ==
    ~app.isTourEnded /\ app.imageUrl # NoUrl /\ app.loadingStep = ERROR

RetryButtonMounted == ErrorPanelMounted /\ app.isRetryableError

ResultDisplayMounted ==
    /\ ~app.isTourEnded /\ app.imageUrl # NoUrl /\ app.loadingStep = DONE
    /\ app.imageFile # NULL /\ app.landmarkInfo # NullLandmarkInfo /\ app.apiKey # NULL

TourSummaryMounted == app.isTourEnded

\* ------------------------------------------------------------ handlers
\* useEffect(() => { ... }, []): the stored credential is loaded once
LoadStoredKey ==
    /\ ~started
    /\ started' = TRUE
    /\ app' = IF localStorage # NULL THEN [app EXCEPT !.apiKey = localStorage] ELSE app
    /\ UNCHANGED <<localStorage, revoked, nextUrl, alertMsg, pc, task, run, succeeded>>
    /\ UNCHANGED <<viewVars, aside>>

Idle == started /\ pc = "idle"

\* handleApiKeySubmit without localStorage.setItem and removeItem
handleApiKeySubmit_NotPersisted(key) ==
    /\ Idle /\ ImageUploaderMounted
    /\ IF key # ""
       THEN app' = [app EXCEPT !.apiKey = key]
       ELSE app' = [app EXCEPT !.apiKey = NULL]
    /\ UNCHANGED <<localStorage, revoked, nextUrl, alertMsg, started, pc, task, run, succeeded>>
    /\ UNCHANGED <<viewVars, aside>>

handleApiKeySubmit(key) ==
    /\ Idle /\ ImageUploaderMounted
    /\ IF key # ""
       THEN localStorage' = key /\ app' = [app EXCEPT !.apiKey = key]
       ELSE localStorage' = NULL /\ app' = [app EXCEPT !.apiKey = NULL]
    /\ UNCHANGED <<revoked, nextUrl, alertMsg, started, pc, task, run, succeeded>>
    /\ UNCHANGED <<viewVars, aside>>

setUserLevel(level) ==
    /\ Idle /\ ImageUploaderMounted
    /\ app' = [app EXCEPT !.userLevel = level]
    /\ UNCHANGED <<localStorage, revoked, nextUrl, alertMsg, started, pc, task, run, succeeded>>
    /\ UNCHANGED <<viewVars, aside>>

\* resetState without the forEach over tourHistory
resetRevokes_CurrentOnly(a, isNewTour) ==
    IF a.imageUrl # NoUrl
       /\ ~(\E i \in 1..Len(a.tourHistory) : a.tourHistory[i].imageUrl = a.imageUrl)
    THEN {a.imageUrl} ELSE {}

\* the URLs resetState revokes
resetRevokes(a, isNewTour) ==
    (IF a.imageUrl # NoUrl
        /\ ~(\E i \in 1..Len(a.tourHistory) : a.tourHistory[i].imageUrl = a.imageUrl)
     THEN {a.imageUrl} ELSE {})
    \cup (IF isNewTour THEN {a.tourHistory[i].imageUrl : i \in 1..Len(a.tourHistory)}
          ELSE {})

\* resetState taking the new-tour branch whatever its argument
resetState_AlwaysNewTour(a, isNewTour) ==
    [a EXCEPT !.loadingStep = IDLE, !.error = NULL, !.errorType = "generic",
              !.failedStep = NULL, !.landmarkInfo = NullLandmarkInfo,
              !.history = <<>>, !.sources = <<>>, !.base64Audio = <<>>,
              !.imageFile = NULL, !.isRetryableError = TRUE,
              !.imageUrl = NoUrl,
              !.tourHistory = <<>>, !.isTourEnded = FALSE, !.userLevel = ""]

\* the state resetState leaves
resetState(a, isNewTour) ==
    LET cleared ==
            [a EXCEPT !.loadingStep = IDLE, !.error = NULL, !.errorType = "generic",
                      !.failedStep = NULL, !.landmarkInfo = NullLandmarkInfo,
                      !.history = <<>>, !.sources = <<>>, !.base64Audio = <<>>,
                      !.imageFile = NULL, !.isRetryableError = TRUE,
                      !.imageUrl = NoUrl]
    IN IF isNewTour
       THEN [cleared EXCEPT !.tourHistory = <<>>, !.isTourEnded = FALSE, !.userLevel = ""]
       ELSE cleared


\* onClick={() => resetState()}: cancel / new start in the error panel,
\* "analyze another photo" in the result view
resetClick ==
    /\ Idle /\ (ErrorPanelMounted \/ ResultDisplayMounted)
    /\ app' = resetState(app, FALSE)
    /\ revoked' = revoked \cup resetRevokes(app, FALSE)
    /\ UNCHANGED <<localStorage, nextUrl, alertMsg, started, pc, task, run, succeeded>>
    /\ ViewsRemounted
    /\ UNCHANGED aside

handleEndTour ==
    /\ Idle /\ ResultDisplayMounted
    /\ app' = [app EXCEPT !.isTourEnded = TRUE]
    /\ UNCHANGED <<localStorage, revoked, nextUrl, alertMsg, started, pc, task, run, succeeded>>
    /\ ViewsRemounted
    /\ UNCHANGED aside

handleRestartTour ==
    /\ Idle /\ TourSummaryMounted
    /\ app' = resetState(app, TRUE)
    /\ revoked' = revoked \cup resetRevokes(app, TRUE)
    /\ UNCHANGED <<localStorage, nextUrl, alertMsg, started, pc, task, run, succeeded>>
    /\ ViewsRemounted
    /\ UNCHANGED aside

\* handleSelectLandmark that restores the first stop whatever the index
handleSelectLandmark_First(index) ==
    /\ Idle /\ TourSummaryMounted
    /\ IF index + 1 \in 1..Len(app.tourHistory)
       THEN LET selectedStop == app.tourHistory[1] IN
            /\ app' = [app EXCEPT !.loadingStep = DONE, !.error = NULL,
                                  !.failedStep = NULL,
                                  !.landmarkInfo = selectedStop.landmarkInfo,
                                  !.history = selectedStop.history,
                                  !.sources = selectedStop.sources,
                                  !.base64Audio = selectedStop.base64Audio,
                                  !.imageFile = selectedStop.imageFile,
                                  !.imageUrl = selectedStop.imageUrl,
                                  !.isTourEnded = FALSE]
            /\ ViewsRemounted
       ELSE app' = app /\ UNCHANGED viewVars
    /\ UNCHANGED <<localStorage, revoked, nextUrl, alertMsg, started, pc, task, run, succeeded>>
    /\ UNCHANGED aside

\* tourHistory[index] of a zero-based index; undefined outside the array
handleSelectLandmark(index) ==
    /\ Idle /\ TourSummaryMounted
    /\ IF index + 1 \in 1..Len(app.tourHistory)
       THEN LET selectedStop == app.tourHistory[index + 1] IN
            /\ app' = [app EXCEPT !.loadingStep = DONE, !.error = NULL,
                                  !.failedStep = NULL,
                                  !.landmarkInfo = selectedStop.landmarkInfo,
                                  !.history = selectedStop.history,
                                  !.sources = selectedStop.sources,
                                  !.base64Audio = selectedStop.base64Audio,
                                  !.imageFile = selectedStop.imageFile,
                                  !.imageUrl = selectedStop.imageUrl,
                                  !.isTourEnded = FALSE]
            /\ ViewsRemounted
       ELSE app' = app /\ UNCHANGED viewVars
    /\ UNCHANGED <<localStorage, revoked, nextUrl, alertMsg, started, pc, task, run, succeeded>>
    /\ UNCHANGED aside

\* ----------------------------------------------------- failure handling
\* `[${loadingMessages[step]}] ... ${err.message || 'unknown error'}`
StepErrorMessage(step, message) ==
    "[" \o step \o "] step failed: " \o (IF message = UNDEFINED THEN "unknown error" ELSE message)

RetryErrorMessage(step, message) ==
    "[" \o step \o "] retry failed: " \o (IF message = UNDEFINED THEN "unknown error" ELSE message)

\* classify with the quota branch left retryable
classify_QuotaRetryable(message, genericMessage) ==
    IF IncludesKeyNotValid(message)
    THEN [errorMessage |-> "invalid API key", isRetryable |-> FALSE, type |-> "key"]
    ELSE IF message = MSG_NOT_FOUND
    THEN [errorMessage |-> "no landmark in the photo", isRetryable |-> FALSE,
          type |-> "not_found"]
    ELSE IF IncludesResourceExhausted(message)
    THEN [errorMessage |-> "quota exceeded", isRetryable |-> TRUE, type |-> "quota"]
    ELSE [errorMessage |-> genericMessage, isRetryable |-> TRUE, type |-> "generic"]

\* the if / else-if chain of both catch blocks
classify(message, genericMessage) ==
    IF IncludesKeyNotValid(message)
    THEN [errorMessage |-> "invalid API key", isRetryable |-> FALSE, type |-> "key"]
    ELSE IF message = MSG_NOT_FOUND
    THEN [errorMessage |-> "no landmark in the photo", isRetryable |-> FALSE,
          type |-> "not_found"]
    ELSE IF IncludesResourceExhausted(message)
    THEN [errorMessage |-> "quota exceeded", isRetryable |-> FALSE, type |-> "quota"]
    ELSE [errorMessage |-> genericMessage, isRetryable |-> TRUE, type |-> "generic"]

\* a catch block whose key branch does not call handleInvalidApiKey()
failed_KeyKept(a, c, step) ==
    [a EXCEPT !.error = c.errorMessage, !.errorType = c.type,
              !.isRetryableError = c.isRetryable,
              !.loadingStep = ERROR, !.failedStep = step]

\* a catch block without its setFailedStep
failed_StepNotRecorded(a, c, step) ==
    [a EXCEPT !.apiKey = IF c.type = "key" THEN NULL ELSE @,
              !.error = c.errorMessage, !.errorType = c.type,
              !.isRetryableError = c.isRetryable,
              !.loadingStep = ERROR]

\* the state a catch block leaves: handleInvalidApiKey() when the key is bad
failed(a, c, step) ==
    [a EXCEPT !.apiKey = IF c.type = "key" THEN NULL ELSE @,
              !.error = c.errorMessage, !.errorType = c.type,
              !.isRetryableError = c.isRetryable,
              !.loadingStep = ERROR, !.failedStep = step]

\* What one step of a handler leaves: the state, the handler's locals, the
\* call it now awaits, the URLs it revoked, whether it removed the stored
\* key, and the error it caught.
Awaiting(a, t, call) ==
    [app |-> a, task |-> t, pc |-> call, revoke |-> {}, clearKey |-> FALSE, error |-> NULL]

Finished(a) ==
    [app |-> a, task |-> NoTask, pc |-> "idle", revoke |-> {}, clearKey |-> FALSE,
     error |-> NULL]

\* catch (err) of handleImageSelect
catchImageSelect(a, t, message) ==
    LET c == classify(message, StepErrorMessage(t.currentStep, message)) IN
    [app |-> failed(a, c, t.currentStep), task |-> NoTask, pc |-> "idle",
     revoke |-> {t.objectUrl}, clearKey |-> (c.type = "key"), error |-> message]

\* catch (err) of handleRetry
catchRetry(a, t, message) ==
    LET c == classify(message, RetryErrorMessage(t.stepToRetry, message)) IN
    [app |-> failed(a, c, t.stepToRetry), task |-> NoTask, pc |-> "idle",
     revoke |-> {}, clearKey |-> (c.type = "key"), error |-> message]

\* ------------------------------------------------- handleImageSelect
\* after await identifyLandmark
imageSelectIdentified(a, t, r) ==
    IF r.ok
    THEN Awaiting([a EXCEPT !.landmarkInfo = r.value, !.loadingStep = FETCHING_HISTORY],
                  [t EXCEPT !.landmarkToUse = r.value, !.currentStep = FETCHING_HISTORY],
                  "narrate")
    ELSE catchImageSelect(a, t, r.message)

\* after await fetchLandmarkHistory
imageSelectNarrated(a, t, r) ==
    IF r.ok
    THEN Awaiting([a EXCEPT !.history = r.value.text, !.sources = r.value.sources,
                            !.loadingStep = GENERATING_SPEECH],
                  [t EXCEPT !.historyToUse = r.value.text,
                            !.sourcesToUse = r.value.sources,
                            !.currentStep = GENERATING_SPEECH],
                  "speak")
    ELSE catchImageSelect(a, t, r.message)

\* imageSelectSpoken appending the stop before it looks at the speak result
imageSelectSpoken_AppendsOnFailure(a, t, r) ==
    LET newTourStop ==
            [landmarkInfo |-> t.landmarkToUse, imageUrl |-> t.objectUrl,
             imageFile |-> t.file, history |-> t.historyToUse,
             sources |-> t.sourcesToUse,
             base64Audio |-> IF r.ok THEN r.value ELSE <<>>]
        appended == [a EXCEPT !.tourHistory = Append(@, newTourStop)]
    IN IF r.ok
       THEN Finished([appended EXCEPT !.base64Audio = r.value,
                                      !.loadingStep = DONE, !.failedStep = NULL])
       ELSE catchImageSelect(appended, t, r.message)

\* after await generateSpeech: the stop is appended to the latest tourHistory
imageSelectSpoken(a, t, r) ==
    IF r.ok
    THEN LET newTourStop ==
                 [landmarkInfo |-> t.landmarkToUse, imageUrl |-> t.objectUrl,
                  imageFile |-> t.file, history |-> t.historyToUse,
                  sources |-> t.sourcesToUse, base64Audio |-> r.value]
         IN Finished([a EXCEPT !.base64Audio = r.value,
                               !.tourHistory = Append(@, newTourStop),
                               !.loadingStep = DONE, !.failedStep = NULL])
    ELSE catchImageSelect(a, t, r.message)

\* --------------------------------------------------------- handleRetry
\* retryFinish writing the closure's tourHistory plus the stop, stop first
retryFinish_Prepends(a, t) ==
    LET found == \E i \in 1..Len(t.tourHistory) :
                     t.tourHistory[i].landmarkInfo.name = t.landmarkToUse.name
        newTourStop ==
            [landmarkInfo |-> t.landmarkToUse, imageUrl |-> t.objectUrl,
             imageFile |-> t.file, history |-> t.historyToUse,
             sources |-> t.sourcesToUse, base64Audio |-> t.audioToUse]
    IN Finished([a EXCEPT !.loadingStep = DONE,
                          !.tourHistory = IF found THEN @
                                          ELSE <<newTourStop>> \o t.tourHistory])

\* setLoadingStep(DONE) and the append guarded by the closure's tourHistory
retryFinish(a, t) ==
    LET found == \E i \in 1..Len(t.tourHistory) :
                     t.tourHistory[i].landmarkInfo.name = t.landmarkToUse.name
        newTourStop ==
            [landmarkInfo |-> t.landmarkToUse, imageUrl |-> t.objectUrl,
             imageFile |-> t.file, history |-> t.historyToUse,
             sources |-> t.sourcesToUse, base64Audio |-> t.audioToUse]
    IN Finished([a EXCEPT !.loadingStep = DONE,
                          !.tourHistory = IF found THEN @ ELSE Append(@, newTourStop)])

\* if (stepToRetry <= LoadingStep.GENERATING_SPEECH)
retrySpeechStage(a, t) ==
    IF StepLE(t.stepToRetry, GENERATING_SPEECH)
    THEN Awaiting([a EXCEPT !.loadingStep = GENERATING_SPEECH], t, "speak")
    ELSE retryFinish(a, t)

\* if (!landmarkToUse) throw; if (stepToRetry <= LoadingStep.FETCHING_HISTORY)
retryHistoryStage(a, t) ==
    IF t.landmarkToUse = NullLandmarkInfo THEN catchRetry(a, t, MSG_NO_LANDMARK)
    ELSE IF StepLE(t.stepToRetry, FETCHING_HISTORY)
    THEN Awaiting([a EXCEPT !.loadingStep = FETCHING_HISTORY], t, "narrate")
    ELSE retrySpeechStage(a, t)

\* if (stepToRetry <= LoadingStep.IDENTIFYING)
retryIdentifyStage(a, t) ==
    IF StepLE(t.stepToRetry, IDENTIFYING)
    THEN Awaiting(a, t, "identify")
    ELSE retryHistoryStage(a, t)

retryIdentified(a, t, r) ==
    IF r.ok
    THEN retryHistoryStage([a EXCEPT !.landmarkInfo = r.value],
                           [t EXCEPT !.landmarkToUse = r.value])
    ELSE catchRetry(a, t, r.message)

retryNarrated(a, t, r) ==
    IF r.ok
    THEN retrySpeechStage([a EXCEPT !.history = r.value.text, !.sources = r.value.sources],
                          [t EXCEPT !.historyToUse = r.value.text,
                                    !.sourcesToUse = r.value.sources])
    ELSE catchRetry(a, t, r.message)

retrySpoken(a, t, r) ==
    IF r.ok
    THEN retryFinish([a EXCEPT !.base64Audio = r.value], [t EXCEPT !.audioToUse = r.value])
    ELSE catchRetry(a, t, r.message)

\* the closure of handleRetry and its statements before the try
retryStarted(a) ==
    LET t == [NoTask EXCEPT !.kind = "retry", !.stepToRetry = a.failedStep,
                            !.file = a.imageFile, !.objectUrl = a.imageUrl,
                            !.apiKey = a.apiKey, !.userLevel = a.userLevel,
                            !.landmarkToUse = a.landmarkInfo,
                            !.historyToUse = a.history, !.sourcesToUse = a.sources,
                            !.audioToUse = a.base64Audio,
                            !.tourHistory = a.tourHistory]
    IN retryIdentifyStage([a EXCEPT !.error = NULL, !.errorType = "generic",
                                    !.loadingStep = a.failedStep, !.failedStep = NULL,
                                    !.isRetryableError = TRUE], t)


\* ------------------------------------------------------------- actions
\* the effect of one handler step on everything but the console
Leaves(o) ==
    /\ app' = o.app
    /\ task' = o.task
    /\ pc' = o.pc
    /\ revoked' = revoked \cup o.revoke
    /\ localStorage' = IF o.clearKey THEN NULL ELSE localStorage
    /\ UNCHANGED <<nextUrl, alertMsg, started>>
    /\ UNCHANGED <<viewVars, aside>>

Logged(o) ==
    [run EXCEPT !.issued = IF o.pc # "idle" THEN Append(@, o.pc) ELSE @,
                !.error = o.error]

\* handleImageSelect without its test of the credential
missingPrerequisite_NoKeyCheck(a) ==
    IF a.userLevel = "" THEN "select your level first" ELSE NULL

\* the two early returns of handleImageSelect: the alert shown, NULL when
\* the audience level and the credential are both there
missingPrerequisite(a) ==
    IF a.userLevel = "" THEN "select your level first"
    ELSE IF a.apiKey = NULL THEN "enter your API key first"
    ELSE NULL

\* handleImageSelect up to its first await
handleImageSelect(file) ==
    /\ Idle /\ ImageUploaderMounted
    /\ IF missingPrerequisite(app) # NULL
       THEN /\ alertMsg' = missingPrerequisite(app)
            /\ UNCHANGED <<app, localStorage, revoked, nextUrl, started, pc, task, run,
                           succeeded>>
       ELSE /\ nextUrl <= MaxImages
            /\ LET objectUrl == nextUrl IN
               /\ app' = [resetState(app, FALSE) EXCEPT !.imageUrl = objectUrl,
                                                        !.imageFile = file,
                                                        !.loadingStep = IDENTIFYING]
               /\ task' = [NoTask EXCEPT !.kind = "select", !.file = file,
                                         !.objectUrl = objectUrl,
                                         !.apiKey = app.apiKey,
                                         !.userLevel = app.userLevel,
                                         !.currentStep = IDENTIFYING]
            /\ revoked' = revoked \cup resetRevokes(app, FALSE)
            /\ nextUrl' = nextUrl + 1
            /\ pc' = "identify"
            /\ run' = [kind |-> "select", from |-> IDENTIFYING,
                       issued |-> <<"identify">>, error |-> NULL]
            /\ succeeded' = {}
            /\ UNCHANGED <<localStorage, alertMsg, started>>
    /\ UNCHANGED <<viewVars, aside>>

\* handleRetry up to its first await
handleRetry ==
    /\ Idle /\ RetryButtonMounted
    /\ app.failedStep # NULL /\ app.imageFile # NULL /\ app.imageUrl # NoUrl
    /\ app.userLevel # "" /\ app.apiKey # NULL
    /\ LET o == retryStarted(app) IN
       /\ Leaves(o)
       /\ run' = [kind |-> "retry", from |-> app.failedStep,
                  issued |-> IF o.pc # "idle" THEN <<o.pc>> ELSE <<>>,
                  error |-> o.error]
    /\ UNCHANGED succeeded

\* await identifyLandmark(apiKey, file) settles with this reply
identifySettlesWith(reply) ==
    /\ pc = "identify"
    /\ LET r == identifyLandmark(reply)
           o == IF task.kind = "select" THEN imageSelectIdentified(app, task, r)
                ELSE retryIdentified(app, task, r)
       IN /\ Leaves(o)
          /\ run' = Logged(o)
          /\ succeeded' = IF r.ok THEN succeeded \cup {"identify"} ELSE succeeded

identifySettles == \E reply \in IdentifyReplies : identifySettlesWith(reply)

\* await fetchLandmarkHistory(apiKey, name, userLevel) settles with this reply
narrateSettlesWith(reply) ==
    /\ pc = "narrate"
    /\ LET r == fetchLandmarkHistory(reply)
           o == IF task.kind = "select" THEN imageSelectNarrated(app, task, r)
                ELSE retryNarrated(app, task, r)
       IN /\ Leaves(o)
          /\ run' = Logged(o)
          /\ succeeded' = IF r.ok THEN succeeded \cup {"narrate"} ELSE succeeded

narrateSettles ==
    \E reply \in NarrateReplies(task.landmarkToUse.name) : narrateSettlesWith(reply)

\* await generateSpeech(apiKey, text) settles with this reply
speakSettlesWith(reply) ==
    /\ pc = "speak"
    /\ LET r == generateSpeech(reply)
           o == IF task.kind = "select" THEN imageSelectSpoken(app, task, r)
                ELSE retrySpoken(app, task, r)
       IN /\ Leaves(o)
          /\ run' = Logged(o)
          /\ succeeded' = IF r.ok THEN succeeded \cup {"speak"} ELSE succeeded

speakSettles == \E reply \in SpeechReplies(task.historyToUse) : speakSettlesWith(reply)

Next ==
    \/ LoadStoredKey
    \/ \E key \in Keys \cup {""} : handleApiKeySubmit(key)
    \/ \E level \in UserLevels : setUserLevel(level)
    \/ \E file \in Files : handleImageSelect(file)
    \/ identifySettles
    \/ narrateSettles
    \/ speakSettles
    \/ handleRetry
    \/ resetClick
    \/ handleEndTour
    \/ handleRestartTour
    \/ \E index \in 0..MaxImages : handleSelectLandmark(index)

Spec == Init /\ [][Next]_vars

\* ------------------------------------------------------------- FunFact
\* the main button (disabled while loading) and the retry button of the
\* error box both call handleFetchFact
handleFetchFact ==
    /\ ResultDisplayMounted /\ ~funFact.isLoading
    /\ funFact' = [fact |-> NULL, isLoading |-> TRUE, error |-> NULL]
    /\ UNCHANGED <<tourVars, artwork, qaChat, certificate, aside>>

\* await fetchFunFact(apiKey, landmarkName, userLevel) settles with this reply
fetchFunFactSettlesWith(reply) ==
    /\ ResultDisplayMounted /\ funFact.isLoading
    /\ LET r == fetchFunFact(reply) IN
       funFact' = IF r.ok
                  THEN [funFact EXCEPT !.fact = r.value, !.isLoading = FALSE]
                  ELSE [funFact EXCEPT !.error = "failed to fetch the fun fact",
                                       !.isLoading = FALSE]
    /\ UNCHANGED <<tourVars, artwork, qaChat, certificate, aside>>

fetchFunFactSettles == \E reply \in FunFactReplies : fetchFunFactSettlesWith(reply)

\* ---------------------------------------------------- ArtworkGenerator
\* two of the four artStyles
ArtStyles ==
    {[name |-> "van gogh", prompt |-> "a painting in the style of Vincent Van Gogh"],
     [name |-> "watercolor", prompt |-> "a watercolor painting"]}

\* the cells handleGenerate sets before its await
generating(style) ==
    [generatedImage |-> NULL, isLoading |-> TRUE, error |-> NULL,
     activeStyle |-> style.name, lastAttemptedStyle |-> style]

\* a style button, disabled while loading
handleGenerate(style) ==
    /\ ResultDisplayMounted /\ ~artwork.isLoading
    /\ artwork' = generating(style)
    /\ UNCHANGED <<tourVars, funFact, qaChat, certificate, aside>>

\* the retry button of the error box
ArtworkGenerator_handleRetry ==
    /\ ResultDisplayMounted /\ artwork.error # NULL /\ ~artwork.isLoading
    /\ artwork' = IF artwork.lastAttemptedStyle.name # NULL
                  THEN generating(artwork.lastAttemptedStyle)
                  ELSE artwork
    /\ UNCHANGED <<tourVars, funFact, qaChat, certificate, aside>>

\* await generateArtwork(imageFile, stylePrompt) settles with this reply
generateArtworkSettlesWith(reply) ==
    /\ ResultDisplayMounted /\ artwork.isLoading
    /\ LET r == generateArtwork(reply) IN
       artwork' = IF r.ok
                  THEN [artwork EXCEPT !.generatedImage = "data:image/png;base64," \o r.value,
                                       !.isLoading = FALSE]
                  ELSE [artwork EXCEPT !.error = "failed to generate the artwork",
                                       !.isLoading = FALSE]
    /\ UNCHANGED <<tourVars, funFact, qaChat, certificate, aside>>

generateArtworkSettles ==
    \E reply \in ArtworkReplies(artwork.lastAttemptedStyle.prompt) :
        generateArtworkSettlesWith(reply)

\* -------------------------------------------------------------- QAChat
\* how many messages a chat holds at most
MaxMessages == 4

\* what the user types: two questions, nothing, a blank
Questions == {<<"why">>, <<"when">>}
InputValues == Questions \cup {<<>>, <<" ">>}

\* !message.trim()
Blank(message) == \A i \in 1..Len(message) : message[i] = " "

\* submitMessage without the isLoading test of its first line
submitMessage_WhileLoading(c, message) ==
    IF Blank(message) THEN c
    ELSE [c EXCEPT !.error = NULL,
                   !.messages = Append(@, [role |-> "user", content |-> message]),
                   !.isLoading = TRUE,
                   !.lastMessage = message]

\* submitMessage up to its await
submitMessage(c, message) ==
    IF Blank(message) \/ c.isLoading THEN c
    ELSE [c EXCEPT !.error = NULL,
                   !.messages = Append(@, [role |-> "user", content |-> message]),
                   !.isLoading = TRUE,
                   !.lastMessage = message]

\* the try block after the await
answered(c, modelResponse) ==
    [c EXCEPT !.messages = Append(@, [role |-> "model", content |-> modelResponse]),
              !.lastMessage = <<>>,
              !.isLoading = FALSE]

\* the catch block slicing off two messages
unanswered_DropsTwo(c) ==
    [c EXCEPT !.messages = SubSeq(@, 1, Len(@) - 2),
              !.error = "failed to generate the answer",
              !.isLoading = FALSE]

\* the catch block: prev.slice(0, prev.length - 1)
unanswered(c) ==
    [c EXCEPT !.messages = SubSeq(@, 1, Len(@) - 1),
              !.error = "failed to generate the answer",
              !.isLoading = FALSE]

\* the form: submitMessage(inputValue)
handleSendMessage(inputValue) ==
    /\ ResultDisplayMounted
    /\ Len(qaChat.messages) < MaxMessages
    /\ qaChat' = submitMessage(qaChat, inputValue)
    /\ UNCHANGED <<tourVars, funFact, artwork, certificate, aside>>

\* "resend the last message", rendered when error && !isLoading
QAChat_handleRetry ==
    /\ ResultDisplayMounted /\ qaChat.error # NULL /\ ~qaChat.isLoading
    /\ qaChat' = submitMessage(qaChat, qaChat.lastMessage)
    /\ UNCHANGED <<tourVars, funFact, artwork, certificate, aside>>

\* await askQuestion(apiKey, landmarkName, history, message, userLevel)
askQuestionSettlesWith(reply) ==
    /\ ResultDisplayMounted /\ qaChat.isLoading
    /\ LET r == askQuestion(reply) IN
       qaChat' = IF r.ok THEN answered(qaChat, r.value) ELSE unanswered(qaChat)
    /\ UNCHANGED <<tourVars, funFact, artwork, certificate, aside>>

askQuestionSettles ==
    \E reply \in AnswerReplies(qaChat.lastMessage) : askQuestionSettlesWith(reply)

\* ------------------------------------------- TourSummary, Certificate
ExplorerNames == {"Ada", ""}

\* <Certificate> is rendered
CertificateMounted ==
    /\ TourSummaryMounted /\ certificate.showCertificate
    /\ Len(app.tourHistory) > 0 /\ app.apiKey # NULL

\* the certificate form, rendered while tourHistory.length > 0 &&
\* !showCertificate; the mounting Certificate runs its effect up to the await
handleGenerateCertificate(explorerName) ==
    /\ TourSummaryMounted /\ Len(app.tourHistory) > 0 /\ ~certificate.showCertificate
    /\ IF explorerName # ""
       THEN /\ certificate' = [certificate EXCEPT !.showCertificate = TRUE,
                                                  !.isLoadingEmojis = TRUE]
            /\ UNCHANGED alertMsg
       ELSE /\ alertMsg' = "enter a name for the certificate"
            /\ UNCHANGED certificate
    /\ UNCHANGED <<app, localStorage, revoked, nextUrl, started, pc, task, run, succeeded>>
    /\ UNCHANGED <<funFact, artwork, qaChat, aside>>

\* await getEmojisForLandmarks(apiKey, landmarkNames) settles with this reply
emojisSettleWith(reply) ==
    /\ CertificateMounted /\ certificate.isLoadingEmojis
    /\ certificate' =
          [certificate EXCEPT
              !.emojis = IF reply.error = NULL THEN reply.emojis
                         ELSE [i \in 1..Len(app.tourHistory) |-> "pin"],
              !.isLoadingEmojis = FALSE]
    /\ UNCHANGED <<tourVars, funFact, artwork, qaChat, aside>>

emojisSettle ==
    \E reply \in EmojiReplies([i \in 1..Len(app.tourHistory) |->
                                  app.tourHistory[i].landmarkInfo.name]) :
        emojisSettleWith(reply)

\* ----------------------------------------------------- the result view
\* the state a submission that went through without a failure leaves
SubmissionDone(landmarkName) ==
    LET info == identifyLandmark([error |-> NULL,
                                  json |-> LandmarkResponse(landmarkName)]).value
        told == fetchLandmarkHistory([error |-> NULL, text |-> <<landmarkName>>,
                                      chunks |-> <<>>]).value
        audio == generateSpeech([error |-> NULL, data |-> AudioFor(told.text)]).value
        stop == [landmarkInfo |-> info, imageUrl |-> 1, imageFile |-> "photo.jpg",
                 history |-> told.text, sources |-> told.sources, base64Audio |-> audio]
    IN [InitialApp EXCEPT !.apiKey = "key-1", !.userLevel = "adult",
                          !.loadingStep = DONE, !.imageUrl = 1,
                          !.imageFile = "photo.jpg", !.landmarkInfo = info,
                          !.history = told.text, !.sources = told.sources,
                          !.base64Audio = audio, !.tourHistory = <<stop>>]

\* the result view of a first stop has just been rendered
InitView ==
    /\ app \in {SubmissionDone(landmarkName) : landmarkName \in LandmarkNames}
    /\ localStorage = "key-1"
    /\ revoked = {}
    /\ nextUrl = 2
    /\ alertMsg = NULL
    /\ started = TRUE
    /\ pc = "idle"
    /\ task = NoTask
    /\ run = [kind |-> "select", from |-> IDENTIFYING,
              issued |-> <<"identify", "narrate", "speak">>, error |-> NULL]
    /\ succeeded = {"identify", "narrate", "speak"}
    /\ ViewInit
    /\ AsideInit

NextView ==
    \/ handleFetchFact
    \/ fetchFunFactSettles
    \/ \E style \in ArtStyles : handleGenerate(style)
    \/ ArtworkGenerator_handleRetry
    \/ generateArtworkSettles
    \/ \E inputValue \in InputValues : handleSendMessage(inputValue)
    \/ QAChat_handleRetry
    \/ askQuestionSettles
    \/ handleEndTour
    \/ \E explorerName \in ExplorerNames : handleGenerateCertificate(explorerName)
    \/ emojisSettle
    \/ \E index \in 0..MaxImages : handleSelectLandmark(index)
    \/ handleRestartTour
    \/ resetClick

SpecView == InitView /\ [][NextView]_vars


\* --------------------------------------------------------- AudioPlayer
\* how many buffer sources one player creates
MaxSources == 3

\* a source is "playing" from start() until it is stopped or its 'ended'
\* event is delivered, "stopped" after stop() while that event is still
\* queued, and "ended" once its onended callback has run
Playing(p) == {i \in 1..Len(p.sources) : p.sources[i] = "playing"}

\* the component has mounted: the effect created the context and awaits
\* decodeAudioData
InitAudio ==
    /\ app \in {SubmissionDone(landmarkName) : landmarkName \in LandmarkNames}
    /\ localStorage = "key-1"
    /\ revoked = {}
    /\ nextUrl = 2
    /\ alertMsg = NULL
    /\ started = TRUE
    /\ pc = "idle"
    /\ task = NoTask
    /\ run = [kind |-> "select", from |-> IDENTIFYING,
              issued |-> <<"identify", "narrate", "speak">>, error |-> NULL]
    /\ succeeded = {"identify", "narrate", "speak"}
    /\ ViewInit
    /\ identification = NoIdentification
    /\ sanitizer = NoSanitizer
    /\ audioPlayer \in {[NoAudioPlayer EXCEPT !.mounted = TRUE, !.decoding = TRUE,
                                               !.audioContext = state] :
                           state \in {"suspended", "running"}}

\* await decodeAudioData(...) settles: the buffer is there, or the catch ran
decodeSettles(decoded) ==
    /\ audioPlayer.mounted /\ audioPlayer.decoding
    /\ audioPlayer' = IF decoded
                      THEN [audioPlayer EXCEPT !.decoding = FALSE,
                                               !.audioBuffer = app.base64Audio,
                                               !.isReady = TRUE]
                      ELSE [audioPlayer EXCEPT !.decoding = FALSE, !.isReady = FALSE]
    /\ UNCHANGED <<tourVars, viewVars, identification, sanitizer>>

\* the button
togglePlayPause ==
    /\ audioPlayer.mounted
    /\ IF audioPlayer.audioContext = NULL \/ audioPlayer.audioBuffer = NULL
       THEN UNCHANGED audioPlayer
       ELSE IF audioPlayer.isPlaying
       THEN audioPlayer' =
              [audioPlayer EXCEPT
                  !.sources = IF audioPlayer.sourceRef # 0
                                 /\ @[audioPlayer.sourceRef] = "playing"
                              THEN [@ EXCEPT ![audioPlayer.sourceRef] = "stopped"]
                              ELSE @,
                  !.isPlaying = FALSE]
       ELSE /\ Len(audioPlayer.sources) < MaxSources
            /\ audioPlayer' =
                  [audioPlayer EXCEPT
                      !.audioContext = "running",
                      !.sources = Append(@, "playing"),
                      !.sourceRef = Len(audioPlayer.sources) + 1,
                      !.isPlaying = TRUE]
    /\ UNCHANGED <<tourVars, viewVars, identification, sanitizer>>

\* source.onended of one source: it played to its end, or it was stopped
onended(source) ==
    /\ audioPlayer.mounted
    /\ source \in 1..Len(audioPlayer.sources)
    /\ audioPlayer.sources[source] \in {"playing", "stopped"}
    /\ audioPlayer' = [audioPlayer EXCEPT !.sources[source] = "ended",
                                          !.isPlaying = FALSE,
                                          !.sourceRef = 0]
    /\ UNCHANGED <<tourVars, viewVars, identification, sanitizer>>

\* the cleanup of the effect: the current source is stopped and the context
\* closed, which silences every source of the context
unmountAudioPlayer ==
    /\ audioPlayer.mounted
    /\ audioPlayer' =
          [audioPlayer EXCEPT
              !.mounted = FALSE,
              !.decoding = FALSE,
              !.audioContext = "closed",
              !.sources = [i \in 1..Len(@) |-> IF @[i] = "playing" THEN "stopped" ELSE @[i]]]
    /\ UNCHANGED <<tourVars, viewVars, identification, sanitizer>>

NextAudio ==
    \/ \E decoded \in BOOLEAN : decodeSettles(decoded)
    \/ togglePlayPause
    \/ \E source \in 1..MaxSources : onended(source)
    \/ unmountAudioPlayer

SpecAudio == InitAudio /\ [][NextAudio]_vars

\* ---------------------------------------------- identifyLandmark alone
\* every JSON document the response schema allows: only is_landmark is
\* required, a field is a value, null or absent
SchemaResponses ==
    [is_landmark : BOOLEAN,
     name : {"Louvre", "", NULL, UNDEFINED},
     city : {"Paris", NULL, UNDEFINED},
     country : {"France", NULL, UNDEFINED},
     latitude : {"48.86", "0", NULL, UNDEFINED},
     longitude : {"2.29", NULL, UNDEFINED}]

SchemaReplies ==
    {[error |-> e, json |-> LandmarkResponse("Louvre")] : e \in BackendErrors}
    \cup {[error |-> NULL, json |-> r] : r \in SchemaResponses}

\* one call of identifyLandmark awaits its reply
InitIdentify ==
    /\ app = InitialApp
    /\ localStorage = NULL
    /\ revoked = {}
    /\ nextUrl = 1
    /\ alertMsg = NULL
    /\ started = FALSE
    /\ pc = "idle"
    /\ task = NoTask
    /\ run = NoRun
    /\ succeeded = {}
    /\ ViewInit
    /\ audioPlayer = NoAudioPlayer
    /\ sanitizer = NoSanitizer
    /\ identification \in {[NoIdentification EXCEPT !.reply = reply] :
                              reply \in SchemaReplies}

\* the call returns or throws
identifyReturns ==
    /\ ~identification.returned
    /\ identification' = [identification EXCEPT
                             !.returned = TRUE,
                             !.result = identifyLandmark(identification.reply)]
    /\ UNCHANGED <<tourVars, viewVars, audioPlayer, sanitizer>>

NextIdentify == identifyReturns

SpecIdentify == InitIdentify /\ [][NextIdentify]_vars

\* ------------------------------------------------- StripEmphasis alone
\* the longest text sanitized
MaxTextLen == 6

RECURSIVE Texts(_)
Texts(n) ==
    IF n = 0 THEN {<<>>}
    ELSE Texts(n - 1)
         \cup {Append(t, c) : t \in {u \in Texts(n - 1) : Len(u) = n - 1},
                              c \in {"*", "a"}}

InitSanitize ==
    /\ app = InitialApp
    /\ localStorage = NULL
    /\ revoked = {}
    /\ nextUrl = 1
    /\ alertMsg = NULL
    /\ started = FALSE
    /\ pc = "idle"
    /\ task = NoTask
    /\ run = NoRun
    /\ succeeded = {}
    /\ ViewInit
    /\ audioPlayer = NoAudioPlayer
    /\ identification = NoIdentification
    /\ sanitizer \in {[NoSanitizer EXCEPT !.text = t] : t \in Texts(MaxTextLen)}

\* the transform applied to the text
sanitize ==
    /\ sanitizer.passes = 0
    /\ sanitizer' = [sanitizer EXCEPT !.passes = 1, !.once = StripEmphasis(sanitizer.text)]
    /\ UNCHANGED <<tourVars, viewVars, audioPlayer, identification>>

\* the transform applied to its own output
sanitizeAgain ==
    /\ sanitizer.passes = 1
    /\ sanitizer' = [sanitizer EXCEPT !.passes = 2, !.twice = StripEmphasis(sanitizer.once)]
    /\ UNCHANGED <<tourVars, viewVars, audioPlayer, identification>>

NextSanitize == sanitize \/ sanitizeAgain

SpecSanitize == InitSanitize /\ [][NextSanitize]_vars

\* ------------------------------------------------------------- claims
Stages == {"identify", "narrate", "speak"}

\* the pipeline stage a capability call belongs to
StageOf(call) ==
    CASE call = "identify" -> IDENTIFYING
      [] call = "narrate" -> FETCHING_HISTORY
      [] call = "speak" -> GENERATING_SPEECH

\* the calls of a stage and of every stage after it, in pipeline order
Downstream(step) ==
    CASE step = IDENTIFYING -> <<"identify", "narrate", "speak">>
      [] step = FETCHING_HISTORY -> <<"narrate", "speak">>
      [] step = GENERATING_SPEECH -> <<"speak">>
      [] OTHER -> <<>>

\* a handler run of the pipeline ended in this step
RunEnds == pc # "idle" /\ pc' = "idle"

\* C1 (only-if half): a step appends a TourStop to the Ledger only when
\* identify, narrate and speak have each produced a result for the image
\* submitted, in the submission or in one of its retries.
C1_AppendOnlyAfterAllStages ==
    [][Len(app'.tourHistory) > Len(app.tourHistory) => succeeded' = Stages]_vars

\* C2: a retry issues no call of a stage upstream of the failed stage:
\* from FETCHING_HISTORY no identify, from GENERATING_SPEECH neither
\* identify nor narrate.
C2_RetrySkipsUpstream ==
    run.kind = "retry" => Range(run.issued) \subseteq Range(Downstream(run.from))

\* C3: a retry that reaches Done has issued the call of the failed stage
\* and of every stage downstream of it, in pipeline order.
C3_RetryRunsDownstream ==
    (run.kind = "retry" /\ pc = "idle" /\ run.error = NULL)
        => LET IsDownstream(call) == call \in Range(Downstream(run.from))
           IN SelectSeq(run.issued, IsDownstream) = Downstream(run.from)

\* C4: no two Ledger entries have the same landmark name.
C4_NoDuplicateNames ==
    \A i, j \in 1..Len(app.tourHistory) :
        i # j => app.tourHistory[i].landmarkInfo.name # app.tourHistory[j].landmarkInfo.name

\* C6: after a failure classified as retryable the image URL of the attempt
\* has not been revoked.
C6_RetryableKeepsImage ==
    (app.loadingStep = ERROR /\ app.isRetryableError) => app.imageUrl \notin revoked

\* what C7 requires of the state after the reply
C7_After ==
    /\ app'.loadingStep = ERROR
    /\ app'.failedStep = IDENTIFYING
    /\ app'.errorType = "not_found"
    /\ ~app'.isRetryableError
    /\ pc' = "idle"
    /\ Range(run'.issued) = {"identify"}
    /\ app'.tourHistory = app.tourHistory

\* C7: when the identify call of the Identifying stage is answered with
\* is_landmark = false, the state becomes Error with failed stage
\* Identifying and class not_found, retry is not offered, no narrate or
\* speak call is issued and the Ledger is unchanged.
C7_NotALandmark ==
    [][\A reply \in IdentifyReplies :
          (/\ reply.error = NULL /\ ~reply.json.is_landmark
           /\ run.from = IDENTIFYING
           /\ identifySettlesWith(reply)) => C7_After]_vars

C7_Witness ==
    /\ app.loadingStep = ERROR /\ app.errorType = "not_found"
    /\ app.failedStep = IDENTIFYING /\ run.error = MSG_NOT_FOUND
    /\ ErrorPanelMounted /\ ~RetryButtonMounted

\* C8: when the call of a stage the run was meant to execute fails with an
\* invalid-credential error, the credential is removed from local storage
\* and from memory, the state is Error with that stage as failed stage,
\* and retry is not offered.
C8_InvalidKeyRecordsStage ==
    [][(/\ RunEnds
        /\ IncludesKeyNotValid(run'.error)
        /\ pc \in Range(Downstream(run.from)))
          => /\ localStorage' = NULL /\ app'.apiKey = NULL
             /\ app'.loadingStep = ERROR
             /\ app'.failedStep = StageOf(pc)
             /\ ~app'.isRetryableError]_vars

ErrorTypes == {"generic", "quota", "key", "not_found"}

\* C9: in Error the class is one of the four, retry is offered exactly when
\* the class is generic, and after another class the only step that leaves
\* Error is a reset to Idle.
C9_RetryIffGeneric ==
    /\ [](app.loadingStep = ERROR =>
            /\ app.errorType \in ErrorTypes
            /\ pc = "idle"
            /\ ErrorPanelMounted
            /\ (ENABLED handleRetry) <=> (app.errorType = "generic"))
    /\ [][(app.loadingStep = ERROR /\ app.errorType # "generic"
           /\ app'.loadingStep # ERROR)
             => (app' = resetState(app, FALSE) /\ app'.loadingStep = IDLE)]_vars

C9_Witness ==
    /\ app.loadingStep = ERROR /\ app.errorType = "quota" /\ ~ENABLED handleRetry
    /\ run.kind = "retry"

\* C10: a submission while the audience level is unset or the credential is
\* absent changes nothing but the alert shown: no call is issued and stage,
\* image, result data and Ledger are as before.
C10_RejectedSubmission ==
    [][\A file \in Files :
          ((app.userLevel = "" \/ app.apiKey = NULL) /\ handleImageSelect(file))
             => UNCHANGED <<app, localStorage, revoked, nextUrl, pc, task, run, succeeded>>]_vars

C10_Witness ==
    /\ alertMsg = "enter your API key first"
    /\ app.apiKey = NULL /\ app.userLevel # ""
    /\ app.loadingStep = IDLE /\ nextUrl = 1 /\ run = NoRun

\* C11: selecting Ledger entry index with 0 <= index < length sets the stage
\* to Done and the displayed landmark, history, sources, audio and image to
\* those of that entry, issues no capability call and leaves the Ledger as
\* it was; selecting an index outside that range changes nothing.
C11_SelectRestoresEntry ==
    [][\A index \in 0..MaxImages :
          handleSelectLandmark(index) =>
              IF 0 <= index /\ index < Len(app.tourHistory)
              THEN LET entry == app.tourHistory[index + 1] IN
                   /\ app'.loadingStep = DONE
                   /\ app'.landmarkInfo = entry.landmarkInfo
                   /\ app'.history = entry.history
                   /\ app'.sources = entry.sources
                   /\ app'.base64Audio = entry.base64Audio
                   /\ app'.imageUrl = entry.imageUrl
                   /\ app'.imageFile = entry.imageFile
                   /\ app'.tourHistory = app.tourHistory
                   /\ pc' = "idle" /\ run' = run /\ task' = task
              ELSE UNCHANGED vars]_vars

\* the first of two stops is displayed again after the second was added
C11_Witness ==
    /\ Len(app.tourHistory) = 2
    /\ app.loadingStep = DONE /\ ~app.isTourEnded
    /\ app.imageUrl = app.tourHistory[1].imageUrl
    /\ app.landmarkInfo = app.tourHistory[1].landmarkInfo
    /\ app.base64Audio = app.tourHistory[1].base64Audio
    /\ pc = "idle"


\* the stage changes the state machine allows, failedStage being the failed
\* stage recorded before the change
WorkingStages == {IDENTIFYING, FETCHING_HISTORY, GENERATING_SPEECH}

SpecifiedTransition(from, failedStage, to) ==
    \/ from = IDLE /\ to = IDENTIFYING
    \/ from = IDENTIFYING /\ to = FETCHING_HISTORY
    \/ from = FETCHING_HISTORY /\ to = GENERATING_SPEECH
    \/ from = GENERATING_SPEECH /\ to = DONE
    \/ from \in WorkingStages /\ to = ERROR
    \/ from = ERROR /\ to = failedStage /\ to \in WorkingStages
    \/ from \in {ERROR, DONE} /\ to = IDLE

\* C12: every change of the pipeline stage is one of the specified
\* transitions; in particular Done is never entered directly from
\* Identifying or FetchingHistory.
C12_SpecifiedTransitions ==
    [][app'.loadingStep # app.loadingStep
         => SpecifiedTransition(app.loadingStep, app.failedStep, app'.loadingStep)]_vars

\* C13: whenever a pipeline call fails, in a submission or in a retry, the
\* failed stage recorded in the Error state is the stage of the call that
\* failed.
C13_FailedStageIsFailingCall ==
    [][(RunEnds /\ run'.error # NULL)
          => (app'.loadingStep = ERROR /\ app'.failedStep = StageOf(pc))]_vars

\* C14: while an identify, narrate or speak call is unresolved the stage is a
\* working stage and neither the uploader nor the retry button is rendered,
\* so no submission and no retry can start a second pipeline call.
C14_OneAttemptInFlight ==
    pc # "idle" =>
        /\ isLoading
        /\ task.kind \in {"select", "retry"}
        /\ ~ImageUploaderMounted
        /\ ~RetryButtonMounted
        /\ ~ENABLED handleRetry
        /\ \A file \in Files : ~ENABLED handleImageSelect(file)

\* the speak call of a retry is unresolved, one stop already in the Ledger
C14_Witness ==
    /\ pc = "speak" /\ task.kind = "retry"
    /\ app.loadingStep = GENERATING_SPEECH
    /\ Len(app.tourHistory) = 1

\* C15: restarting the tour revokes the image URL of every Ledger entry and
\* leaves the Ledger empty, the stage Idle, the tour-ended flag false and the
\* audience level unset.
C15_RestartClearsLedger ==
    [][handleRestartTour
         => /\ \A i \in 1..Len(app.tourHistory) : app.tourHistory[i].imageUrl \in revoked'
            /\ app'.tourHistory = <<>>
            /\ app'.loadingStep = IDLE
            /\ ~app'.isTourEnded
            /\ app'.userLevel = ""]_vars

\* a tour of two completed stops was restarted
C15_Witness ==
    /\ app.tourHistory = <<>> /\ succeeded = Stages /\ nextUrl = 3
    /\ revoked = {1, 2}
    /\ app.loadingStep = IDLE /\ ~app.isTourEnded /\ app.userLevel = ""
    /\ run.kind = "select" /\ run.error = NULL

\* the emoji cells after a failed emoji call: one placeholder per stop
EmojiFallback ==
    /\ CertificateMounted /\ ~certificate.isLoadingEmojis
    /\ certificate.emojis = [i \in 1..Len(app.tourHistory) |-> "pin"]

\* what a failed call of one widget leaves alone outside the widgets
C16_TourKept == UNCHANGED <<app, localStorage, revoked, pc, task>>

\* a failed call leaves everything but its own widget as it was, and its
\* widget not loading
C16_Frame ==
    /\ \A reply \in FunFactReplies :
          (~fetchFunFact(reply).ok /\ fetchFunFactSettlesWith(reply))
             => /\ C16_TourKept /\ UNCHANGED <<artwork, qaChat, certificate>>
                /\ ~funFact'.isLoading
    /\ \A reply \in AnswerReplies(qaChat.lastMessage) :
          (~askQuestion(reply).ok /\ askQuestionSettlesWith(reply))
             => /\ C16_TourKept /\ UNCHANGED <<funFact, artwork, certificate>>
                /\ ~qaChat'.isLoading
    /\ \A reply \in ArtworkReplies(artwork.lastAttemptedStyle.prompt) :
          (~generateArtwork(reply).ok /\ generateArtworkSettlesWith(reply))
             => /\ C16_TourKept /\ UNCHANGED <<funFact, qaChat, certificate>>
                /\ ~artwork'.isLoading
    /\ \A reply \in EmojiReplies([i \in 1..Len(app.tourHistory) |->
                                     app.tourHistory[i].landmarkInfo.name]) :
          (reply.error # NULL /\ emojisSettleWith(reply))
             => /\ C16_TourKept /\ UNCHANGED <<funFact, artwork, qaChat>>
                /\ ~certificate'.isLoadingEmojis

\* after a failure the fun-fact, chat and artwork widgets offer their retry
C16_WidgetRetries ==
    /\ (funFact.error # NULL /\ ~funFact.isLoading) => ENABLED handleFetchFact
    /\ (qaChat.error # NULL /\ ~qaChat.isLoading)
          => (ENABLED QAChat_handleRetry /\ ~Blank(qaChat.lastMessage))
    /\ (artwork.error # NULL /\ ~artwork.isLoading)
          => (ENABLED ArtworkGenerator_handleRetry
              /\ artwork.lastAttemptedStyle \in ArtStyles)

\* after a failure the emoji call can be issued again
C16_EmojiRetry ==
    EmojiFallback
       => ENABLED (\E explorerName \in ExplorerNames :
                      handleGenerateCertificate(explorerName))

\* C16: a failed fun-fact, chat, artwork or emoji call changes only the cells
\* of the widget that issued it (stage, displayed stop, Ledger, credential and
\* the other widgets stay as they are), the widget ends not loading, and from
\* that state the widget's own retry can be triggered.
C16_FailureIsLocal ==
    /\ [][C16_Frame]_vars
    /\ [](C16_WidgetRetries /\ C16_EmojiRetry)

IsPrefix(a, b) == Len(a) <= Len(b) /\ SubSeq(b, 1, Len(a)) = a

\* a step of one mounted result view: its chat is the same component instance
SameResultView == ResultDisplayMounted /\ ResultDisplayMounted'

\* C17 (as claimed): the chat message sequence of a result view is
\* append-only: after submitted questions, successful answers and failed
\* answers every message once in the sequence is still there at the same
\* position.
C17_AppendOnly ==
    [][SameResultView => IsPrefix(qaChat.messages, qaChat'.messages)]_vars

\* the messages without the question that is in flight
Settled(c) ==
    IF c.isLoading THEN SubSeq(c.messages, 1, Len(c.messages) - 1) ELSE c.messages

\* C17 (amended): the sequence is append-only but for the question in flight:
\* every message that was in the sequence while no question was in flight
\* stays at its position, and the only removal is that of the trailing user
\* message of a question whose answer failed.
C17_SettledAppendOnly ==
    [][SameResultView
         => /\ IsPrefix(Settled(qaChat), qaChat'.messages)
            /\ IsPrefix(Settled(qaChat), Settled(qaChat'))
            /\ ~IsPrefix(qaChat.messages, qaChat'.messages)
                 => /\ qaChat.isLoading /\ ~qaChat'.isLoading
                    /\ qaChat'.error # NULL
                    /\ qaChat'.messages = Settled(qaChat)
                    /\ qaChat.messages[Len(qaChat.messages)]
                         = [role |-> "user", content |-> qaChat.lastMessage]]_vars

\* a question failed after another had been answered
C17_Witness ==
    /\ ResultDisplayMounted
    /\ Len(qaChat.messages) = 2 /\ qaChat.messages[2].role = "model"
    /\ qaChat.error # NULL /\ ~qaChat.isLoading /\ qaChat.lastMessage \in Questions

\* the flag is true and the five fields are present and non-null
Complete(json) ==
    /\ json.is_landmark
    /\ \A v \in {json.name, json.city, json.country, json.latitude, json.longitude} :
          v \notin {NULL, UNDEFINED}

\* C18: identify returns a LandmarkInfo only for a response with
\* is_landmark = true and name, city, country, latitude and longitude all
\* present and non-null; for every response with the flag false or one of the
\* five absent or null it fails with the not-a-landmark error, so that a
\* returned LandmarkInfo has no missing field.
C18_IdentifyComplete ==
    (identification.returned /\ identification.reply.error = NULL)
       => LET json == identification.reply.json
              result == identification.result
          IN /\ result.ok => Complete(json)
             /\ ~Complete(json) => result = Failure(MSG_NOT_FOUND)
             /\ result.ok =>
                   \A v \in {result.value.name, result.value.city, result.value.country,
                              result.value.latitude, result.value.longitude} :
                       v \notin {NULL, UNDEFINED}

\* the text contains "**"
HasEmphasis(text) == \E i \in 1..Len(text) - 1 : text[i] = "*" /\ text[i + 1] = "*"

\* C19: stripping the emphasis marks is idempotent: applied to its own
\* output it changes nothing, and its output contains no "**".
C19_StripIdempotent ==
    /\ sanitizer.passes >= 1 => ~HasEmphasis(sanitizer.once)
    /\ sanitizer.passes = 2 => sanitizer.twice = sanitizer.once

\* a run of three marks inside a text was stripped twice
C19_Witness ==
    /\ sanitizer.passes = 2
    /\ sanitizer.text = <<"a", "*", "*", "*", "a", "*">>
    /\ sanitizer.once = <<"a", "*", "a", "*">>
    /\ sanitizer.twice = sanitizer.once

\* C20: for one audio player, under every interleaving of play clicks, stop
\* clicks and 'ended' callbacks, at most one buffer source is playing, and
\* the playing flag is true exactly when a source is playing.
C20_OneSourcePlaying ==
    /\ Cardinality(Playing(audioPlayer)) <= 1
    /\ audioPlayer.mounted => (audioPlayer.isPlaying <=> (Playing(audioPlayer) # {}))

\* the Ledger entries made from one object URL, that is by one submission
\* and its retries: createObjectURL gives every submission a fresh URL
StopsOf(url) == {i \in 1..Len(app.tourHistory) : app.tourHistory[i].imageUrl = url}

\* the attempt that is in flight or waits in Error is the latest submission
\* and has no Ledger entry yet; in Done no retry can be triggered
C21_LineageOpen ==
    /\ (pc # "idle" \/ app.loadingStep = ERROR)
          => /\ app.imageUrl = nextUrl - 1
             /\ StopsOf(app.imageUrl) = {}
    /\ pc # "idle" => task.objectUrl = app.imageUrl
    /\ app.loadingStep = DONE
          => (pc = "idle" /\ app.failedStep = NULL /\ ~ENABLED handleRetry)
    /\ \A i \in 1..Len(app.tourHistory) :
          Cardinality(StopsOf(app.tourHistory[i].imageUrl)) = 1

\* an append adds one stop, made from the image of the attempt in flight, and
\* ends the attempt in Done; from Done or Idle only a new submission, with a
\* fresh URL, starts a call
C21_LineageSteps ==
    /\ Len(app'.tourHistory) > Len(app.tourHistory)
          => /\ pc # "idle" /\ pc' = "idle" /\ app'.loadingStep = DONE
             /\ \E stop \in Range(app'.tourHistory) :
                   /\ app'.tourHistory = Append(app.tourHistory, stop)
                   /\ stop.imageUrl = task.objectUrl
    /\ (app.loadingStep \in {DONE, IDLE} /\ pc' # "idle")
          => /\ task'.kind = "select"
             /\ task'.objectUrl = nextUrl /\ nextUrl' = nextUrl + 1
             /\ StopsOf(nextUrl) = {}

\* C21: a submission and all of its retries append at most one entry to the
\* Ledger, however many retries fail before one succeeds, and once the
\* attempt has reached Done no retry of it can run.
C21_OneAppendPerLineage ==
    /\ []C21_LineageOpen
    /\ [][C21_LineageSteps]_vars

\* a retry of the second submission has succeeded and appended its one stop
C21_Witness ==
    /\ run.kind = "retry" /\ run.from = GENERATING_SPEECH /\ run.error = NULL
    /\ app.loadingStep = DONE /\ pc = "idle" /\ ~app.isTourEnded
    /\ Len(app.tourHistory) = 2
    /\ app.tourHistory[2].imageUrl = app.imageUrl
    /\ Cardinality(StopsOf(app.imageUrl)) = 1

\* C22: while an identify, narrate or speak call is in flight, in a
\* submission or in a retry, the displayed stage is the stage of that call:
\* Identifying during identify, FetchingHistory during narrate,
\* GeneratingSpeech during speak.
C22_StageIsExecutingCall ==
    pc # "idle" => app.loadingStep = StageOf(pc)

\* C23: a reset that is not a tour restart (cancel or new start from Error,
\* "analyze another photo" from Done) ends in Idle with landmark, history,
\* sources, audio, image, error message and failed stage cleared and
\* retryability back to its default, and leaves the Ledger, the credential,
\* the audience level and the tour-ended flag as they were.
C23_ResetKeepsTour ==
    [][resetClick
         => /\ app'.loadingStep = IDLE
            /\ app'.landmarkInfo = NullLandmarkInfo
            /\ app'.history = <<>> /\ app'.sources = <<>> /\ app'.base64Audio = <<>>
            /\ app'.imageUrl = NoUrl /\ app'.imageFile = NULL
            /\ app'.error = NULL /\ app'.failedStep = NULL
            /\ app'.isRetryableError
            /\ app'.tourHistory = app.tourHistory
            /\ app'.apiKey = app.apiKey /\ localStorage' = localStorage
            /\ app'.userLevel = app.userLevel
            /\ app'.isTourEnded = app.isTourEnded
            /\ pc' = "idle"]_vars

\* the failed second submission of a tour was cancelled: the first stop is
\* still in the Ledger
C23_Witness ==
    /\ app.loadingStep = IDLE /\ pc = "idle" /\ ~app.isTourEnded
    /\ run.kind = "select" /\ run.error = MSG_NETWORK /\ nextUrl = 3
    /\ Len(app.tourHistory) = 1 /\ app.tourHistory[1].imageUrl = 1
    /\ app.imageUrl = NoUrl /\ app.error = NULL /\ app.failedStep = NULL
    /\ app.userLevel = "adult" /\ app.apiKey = "key-1" /\ localStorage = "key-1"

\* the history and sources are what a narrate call for this landmark name
\* returned, and the audio is what a speak call for that history returned
Consistent(landmarkInfo, history, sources, audio) ==
    /\ \E reply \in NarrateReplies(landmarkInfo.name) :
          /\ reply.error = NULL
          /\ fetchLandmarkHistory(reply).value = [text |-> history, sources |-> sources]
    /\ \E reply \in SpeechReplies(history) :
          generateSpeech(reply) = [ok |-> TRUE, value |-> audio]

\* C24: every TourStop of the Ledger, and the result displayed in Done, is
\* consistent: its history and sources come from a narrate call made with
\* its landmark name and its audio from a speak call made with that history,
\* never from another landmark's calls or from the empty initial values.
C24_StopsConsistent ==
    /\ \A i \in 1..Len(app.tourHistory) :
          LET stop == app.tourHistory[i] IN
          Consistent(stop.landmarkInfo, stop.history, stop.sources, stop.base64Audio)
    /\ (app.loadingStep = DONE /\ pc = "idle")
          => Consistent(app.landmarkInfo, app.history, app.sources, app.base64Audio)

\* C25: as long as a TourStop is in the Ledger its image URL has not been
\* revoked: no failure handler and no reset other than a restart revokes the
\* URL of a stop that is, or later becomes, a Ledger entry.
C25_LedgerUrlsLive ==
    \A i \in 1..Len(app.tourHistory) : app.tourHistory[i].imageUrl \notin revoked

\* C26: the stage is Error, a failed stage is recorded and an error message
\* is set either all three or none of them, in every state a handler step
\* leaves; and a recorded failed stage is Identifying, FetchingHistory or
\* GeneratingSpeech, never Idle, Done or Error.
C26_ErrorTriple ==
    /\ (app.loadingStep = ERROR) <=> (app.failedStep # NULL)
    /\ (app.loadingStep = ERROR) <=> (app.error \notin {NULL, UNDEFINED, ""})
    /\ app.failedStep # NULL => app.failedStep \in WorkingStages

\* a retry has failed: the triple is set again
C26_Witness ==
    /\ app.loadingStep = ERROR /\ app.failedStep = FETCHING_HISTORY
    /\ app.error = RetryErrorMessage(FETCHING_HISTORY, MSG_NETWORK)
    /\ run.kind = "retry" /\ run.error = MSG_NETWORK /\ pc = "idle"

\* C27: the Ledger changes in two ways only: the step that completes a
\* successful attempt appends exactly one TourStop at its end, or a tour
\* restart empties it.  No other step (reset, failure, selecting a stop,
\* ending the tour, credential change) removes, moves or modifies an entry,
\* so between restarts the earlier Ledger is a prefix of the later one.
C27_AppendOrRestart ==
    [][/\ app'.tourHistory # app.tourHistory
          => \/ /\ RunEnds /\ run'.error = NULL /\ app'.loadingStep = DONE
                /\ Len(app'.tourHistory) = Len(app.tourHistory) + 1
                /\ IsPrefix(app.tourHistory, app'.tourHistory)
             \/ /\ handleRestartTour
                /\ app'.tourHistory = <<>>
       /\ ~handleRestartTour => IsPrefix(app.tourHistory, app'.tourHistory)]_vars

\* a second stop was appended by a retry after the first one, and the first
\* has been selected again from the summary
C27_Witness ==
    /\ Len(app.tourHistory) = 2 /\ run.kind = "retry" /\ run.error = NULL
    /\ app.tourHistory[1].imageUrl = 1 /\ app.tourHistory[2].imageUrl = 2
    /\ app.loadingStep = DONE /\ app.imageUrl = 1 /\ ~app.isTourEnded

\* a pipeline run ends in the catch block with an invalid-credential error
InvalidKeyFailure == RunEnds /\ IncludesKeyNotValid(run'.error)

\* what changes the credential, and how
C28_CredentialSteps ==
    /\ \A key \in Keys \cup {""} :
          handleApiKeySubmit(key)
             => IF key # ""
                THEN app'.apiKey = key /\ localStorage' = key
                ELSE app'.apiKey = NULL /\ localStorage' = NULL
    /\ InvalidKeyFailure => (app'.apiKey = NULL /\ localStorage' = NULL)
    /\ (started /\ (app'.apiKey # app.apiKey \/ localStorage' # localStorage))
          => \/ \E key \in Keys \cup {""} : handleApiKeySubmit(key)
             \/ InvalidKeyFailure

\* C28: once the stored credential has been loaded, the credential in memory
\* and the one in local storage agree in every state: submitting a non-empty
\* key sets both, submitting an empty key or an invalid-credential failure
\* clears both, and no other step (reset, restart, retry, selection) changes
\* either of them.
C28_CredentialAgrees ==
    /\ [](started => app.apiKey = localStorage)
    /\ [][C28_CredentialSteps]_vars

\* a stored key was loaded, found invalid by a pipeline call, and cleared
C28_Witness ==
    /\ started /\ app.apiKey = NULL /\ localStorage = NULL
    /\ app.loadingStep = ERROR /\ app.errorType = "key" /\ pc = "idle"

\* while the credential is absent no call is in flight and the retry cannot
\* be triggered; a call in flight was issued with the credential in memory
C29_NoCallWithoutKey ==
    /\ app.apiKey = NULL => (pc = "idle" /\ ~ENABLED handleRetry)
    /\ pc # "idle" => task.apiKey = app.apiKey

\* an invalid-credential failure leaves the credential absent; while it is
\* absent no step issues a call or starts a run; and only the submission of
\* a non-empty key makes it present again
C29_KeySteps ==
    /\ InvalidKeyFailure => (app'.apiKey = NULL /\ pc' = "idle")
    /\ app.apiKey = NULL => (pc' = "idle" /\ run' = run /\ task' = task)
    /\ (started /\ app.apiKey = NULL /\ app'.apiKey # NULL)
          => \E key \in Keys : handleApiKeySubmit(key)

\* C29: after a pipeline failure classified as invalid credential no
\* identify, narrate or speak call is issued until a new non-empty credential
\* has been submitted: retry and a new submission are both refused while the
\* credential is absent.
C29_NoCallUntilNewKey ==
    /\ []C29_NoCallWithoutKey
    /\ [][C29_KeySteps]_vars

\* after an invalid-credential failure and a reset a photo was submitted and
\* refused
C29_Witness ==
    /\ run.error \in {MSG_KEY, MSG_KEY_AND_QUOTA} /\ app.apiKey = NULL
    /\ app.loadingStep = IDLE /\ app.userLevel # ""
    /\ alertMsg = "enter your API key first" /\ pc = "idle"

\* user question and model answer in alternation, each answer being what
\* askQuestion returned for the question before it
Pairs(messages) ==
    /\ Len(messages) % 2 = 0
    /\ \A i \in 1..Len(messages) :
          IF i % 2 = 1
          THEN messages[i].role = "user" /\ ~Blank(messages[i].content)
          ELSE /\ messages[i].role = "model"
               /\ \E reply \in AnswerReplies(messages[i - 1].content) :
                     askQuestion(reply) = [ok |-> TRUE, value |-> messages[i].content]

\* the shape of the message sequence with and without a question in flight
C30_Shape ==
    IF qaChat.isLoading
    THEN /\ Len(qaChat.messages) >= 1
         /\ Pairs(Settled(qaChat))
         /\ qaChat.messages[Len(qaChat.messages)]
               = [role |-> "user", content |-> qaChat.lastMessage]
         /\ ~Blank(qaChat.lastMessage)
    ELSE /\ Pairs(qaChat.messages)
         /\ qaChat.error # NULL => ~Blank(qaChat.lastMessage)

\* a failed answer removes the question and keeps its text; the resend
\* submits that text; the chat changes only by a submission that is neither
\* blank nor made while a question is in flight, by the answer or the failure
\* of the question in flight, and by a new result view
C30_Steps ==
    /\ \A reply \in AnswerReplies(qaChat.lastMessage) :
          (~askQuestion(reply).ok /\ askQuestionSettlesWith(reply))
             => /\ qaChat'.messages = Settled(qaChat)
                /\ qaChat'.lastMessage = qaChat.lastMessage
                /\ qaChat'.error # NULL /\ ~qaChat'.isLoading
    /\ QAChat_handleRetry
          => /\ qaChat'.isLoading
             /\ qaChat'.messages
                   = Append(qaChat.messages,
                            [role |-> "user", content |-> qaChat.lastMessage])
    /\ qaChat' # qaChat
          => \/ /\ ~qaChat.isLoading /\ qaChat'.isLoading
                /\ ~Blank(qaChat'.lastMessage)
                /\ qaChat'.messages
                      = Append(qaChat.messages,
                               [role |-> "user", content |-> qaChat'.lastMessage])
             \/ /\ qaChat.isLoading /\ ~qaChat'.isLoading
                /\ \E reply \in AnswerReplies(qaChat.lastMessage) :
                      askQuestionSettlesWith(reply)
             \/ qaChat' = InitialQAChat

\* C30: with no question in flight the chat is a sequence of complete (user
\* question, model answer) pairs starting with a user message; with a
\* question in flight it is that sequence plus one trailing user message; a
\* failed question leaves no unanswered user message, its text is kept for
\* the resend, and a submission made while a question is in flight or with a
\* blank text is ignored.
C30_ChatPairs ==
    /\ []C30_Shape
    /\ [][C30_Steps]_vars

\* the second question failed after the first was answered: one pair is
\* left and the failed text can be resent
C30_Witness ==
    /\ ResultDisplayMounted /\ ~qaChat.isLoading /\ qaChat.error # NULL
    /\ qaChat.lastMessage = <<"when">>
    /\ qaChat.messages = <<[role |-> "user", content |-> <<"why">>],
                           [role |-> "model", content |-> <<"re", "why">>]>>

=============================================================================
